---- MODULE Spec2Model ----
(***************************************************************************)
(* Model of the Othello engine of src/othello.py: the board (OthelloBoard), *)
(* the CPU player (OthelloCPU) and the evaluator, together with the        *)
(* snapshot loader list_to_board of the API layer.                         *)
(*                                                                         *)
(* A board object is a record [size, board]: size is OthelloBoard.size and *)
(* board is the numpy grid, a function row -> (col -> cell value).         *)
(***************************************************************************)
EXTENDS Integers, Sequences, FiniteSets, TLC

(* ---------------------------------------------------------------------- *)
(* Player (enum)                                                          *)
(* ---------------------------------------------------------------------- *)
BLACK == 1
WHITE == -1
EMPTY == 0

Players == {BLACK, WHITE}

(* ---------------------------------------------------------------------- *)
(* OthelloBoard                                                           *)
(* ---------------------------------------------------------------------- *)
(* Variant of the initial position with the two colours exchanged *)
setup_initial_position_swapped(size) ==
    LET center == size \div 2
    IN [r \in 0..(size - 1) |-> [c \in 0..(size - 1) |->
          IF (r = center - 1 /\ c = center - 1) \/ (r = center /\ c = center)
          THEN BLACK
          ELSE IF (r = center - 1 /\ c = center) \/ (r = center /\ c = center - 1)
          THEN WHITE
          ELSE EMPTY]]

setup_initial_position(size) ==
    LET center == size \div 2
    IN [r \in 0..(size - 1) |-> [c \in 0..(size - 1) |->
          IF (r = center - 1 /\ c = center - 1) \/ (r = center /\ c = center)
          THEN WHITE
          ELSE IF (r = center - 1 /\ c = center) \/ (r = center /\ c = center - 1)
          THEN BLACK
          ELSE EMPTY]]

OthelloBoard(size) == [size |-> size, board |-> setup_initial_position(size)]

directions == << <<-1, -1>>, <<-1, 0>>, <<-1, 1>>, <<0, -1>>,
                 <<0, 1>>, <<1, -1>>, <<1, 0>>, <<1, 1>> >>

InBounds(bd, r, c) == 0 <= r /\ r < bd.size /\ 0 <= c /\ c < bd.size

RECURSIVE CanFlipWalk(_, _, _, _, _, _, _)
CanFlipWalk(bd, r, c, dr, dc, player, found_opponent) ==
    IF ~InBounds(bd, r, c) THEN FALSE
    ELSE IF bd.board[r][c] = EMPTY THEN FALSE
    ELSE IF bd.board[r][c] = player THEN found_opponent
    ELSE CanFlipWalk(bd, r + dr, c + dc, dr, dc, player, TRUE)

(* Variant of _can_flip_in_direction that does not require the run to be   *)
(* closed by one of the player's pieces.                                   *)
RECURSIVE UnclosedWalk(_, _, _, _, _, _, _)
UnclosedWalk(bd, r, c, dr, dc, player, found_opponent) ==
    IF ~InBounds(bd, r, c) THEN found_opponent
    ELSE IF bd.board[r][c] = EMPTY THEN found_opponent
    ELSE IF bd.board[r][c] = player THEN found_opponent
    ELSE UnclosedWalk(bd, r + dr, c + dc, dr, dc, player, TRUE)

can_flip_unclosed(bd, row, col, dr, dc, player) ==
    UnclosedWalk(bd, row + dr, col + dc, dr, dc, player, FALSE)

can_flip_in_direction(bd, row, col, dr, dc, player) ==
    CanFlipWalk(bd, row + dr, col + dc, dr, dc, player, FALSE)

is_valid_move(bd, row, col, player) ==
    IF ~InBounds(bd, row, col) THEN FALSE
    ELSE IF bd.board[row][col] # EMPTY THEN FALSE
    ELSE \E i \in 1..Len(directions) :
            can_flip_in_direction(bd, row, col, directions[i][1], directions[i][2], player)

SetCell(bd, r, c, v) == [bd EXCEPT !.board[r][c] = v]

RECURSIVE FlipWalk(_, _, _, _, _, _)
FlipWalk(bd, r, c, dr, dc, player) ==
    IF ~InBounds(bd, r, c) THEN bd
    ELSE IF bd.board[r][c] = player THEN bd
    ELSE FlipWalk(SetCell(bd, r, c, player), r + dr, c + dc, dr, dc, player)

flip_pieces_in_direction(bd, row, col, dr, dc, player) ==
    FlipWalk(bd, row + dr, col + dc, dr, dc, player)

(* Variant of the loop of make_move that stops after the first direction   *)
(* in which it flipped.                                                    *)
RECURSIVE FlipDirsFirstOnly(_, _, _, _, _, _)
FlipDirsFirstOnly(bd, row, col, player, dirs, i) ==
    IF i > Len(dirs) THEN bd
    ELSE IF can_flip_in_direction(bd, row, col, dirs[i][1], dirs[i][2], player)
    THEN flip_pieces_in_direction(bd, row, col, dirs[i][1], dirs[i][2], player)
    ELSE FlipDirsFirstOnly(bd, row, col, player, dirs, i + 1)

(* The loop of make_move over a sequence of directions: each direction is  *)
(* re-checked on the board as flipped so far.                              *)
RECURSIVE FlipDirs(_, _, _, _, _, _)
FlipDirs(bd, row, col, player, dirs, i) ==
    IF i > Len(dirs) THEN bd
    ELSE LET dr == dirs[i][1]
             dc == dirs[i][2]
             nb == IF can_flip_in_direction(bd, row, col, dr, dc, player)
                   THEN flip_pieces_in_direction(bd, row, col, dr, dc, player)
                   ELSE bd
         IN FlipDirs(nb, row, col, player, dirs, i + 1)

(* Variant of make_move that places the piece before it validates *)
make_move_place_first(bd, row, col, player, dirs) ==
    IF ~InBounds(bd, row, col) \/ bd.board[row][col] # EMPTY
    THEN [ret |-> FALSE, bd |-> bd]
    ELSE [ret |-> is_valid_move(bd, row, col, player),
          bd  |-> FlipDirs(SetCell(bd, row, col, player), row, col, player, dirs, 1)]

make_move_in_order(bd, row, col, player, dirs) ==
    IF ~is_valid_move(bd, row, col, player)
    THEN [ret |-> FALSE, bd |-> bd]
    ELSE [ret |-> TRUE,
          bd  |-> FlipDirs(SetCell(bd, row, col, player), row, col, player, dirs, 1)]

make_move(bd, row, col, player) == make_move_in_order(bd, row, col, player, directions)

AllCells(size) == [i \in 1..(size * size) |-> <<(i - 1) \div size, (i - 1) % size>>]

(* Variant of get_valid_moves with the two loops exchanged *)
get_valid_moves_by_column(bd, player) ==
    SelectSeq([i \in 1..(bd.size * bd.size) |-> <<(i - 1) % bd.size, (i - 1) \div bd.size>>],
              LAMBDA m : is_valid_move(bd, m[1], m[2], player))

get_valid_moves(bd, player) ==
    SelectSeq(AllCells(bd.size), LAMBDA m : is_valid_move(bd, m[1], m[2], player))

CountCells(bd, v) ==
    Cardinality({rc \in (DOMAIN bd.board) \X (DOMAIN bd.board) : bd.board[rc[1]][rc[2]] = v})

get_score(bd) == <<CountCells(bd, BLACK), CountCells(bd, WHITE)>>

(* Variant of is_game_over that ends the game when either player is stuck *)
is_game_over_either(bd) ==
    Len(get_valid_moves(bd, BLACK)) = 0 \/ Len(get_valid_moves(bd, WHITE)) = 0

is_game_over(bd) ==
    Len(get_valid_moves(bd, BLACK)) = 0 /\ Len(get_valid_moves(bd, WHITE)) = 0

(* A view of an array: the same cells, and the same array *)
ndarray_view(array) == [cells |-> array, shared |-> TRUE]

(* self.board.copy(): a new array that holds the same cells; `shared` says *)
(* whether a write through the result reaches the array it was made from   *)
ndarray_copy(array) == [cells |-> array, shared |-> FALSE]

copy(bd) == [size |-> bd.size, board |-> ndarray_copy(bd.board).cells]

(* Whether the board copy() returns writes to the array of its source *)
CopyShares(bd) == ndarray_copy(bd.board).shared

(* ---------------------------------------------------------------------- *)
(* OthelloCPU                                                             *)
(* ---------------------------------------------------------------------- *)
position_values ==
    << << 100, -20, 10,  5,  5, 10, -20, 100 >>,
       << -20, -50, -2, -2, -2, -2, -50, -20 >>,
       <<  10,  -2, -1, -1, -1, -1,  -2,  10 >>,
       <<   5,  -2, -1, -1, -1, -1,  -2,   5 >>,
       <<   5,  -2, -1, -1, -1, -1,  -2,   5 >>,
       <<  10,  -2, -1, -1, -1, -1,  -2,  10 >>,
       << -20, -50, -2, -2, -2, -2, -50, -20 >>,
       << 100, -20, 10,  5,  5, 10, -20, 100 >> >>

(* float('inf'): larger in magnitude than every score the evaluator returns *)
Inf == 1000000

(* Variant of OthelloCPU.__init__ whose opponent is White for either player *)
OthelloCPU_white_opponent(player, difficulty) ==
    [player |-> player, opponent |-> WHITE, difficulty |-> difficulty]

OthelloCPU(player, difficulty) ==
    [player |-> player,
     opponent |-> IF player = BLACK THEN WHITE ELSE BLACK,
     difficulty |-> difficulty]

(* Results of the evaluator and of the searches: a value, or the IndexError *)
(* raised by position_values[row, col] outside the 8 x 8 table.            *)
Val(v) == [err |-> FALSE, v |-> v]
Raised == [err |-> TRUE, v |-> 0]

(* position_values[row, col] is read for the cells of range(size) holding   *)
(* a piece of the player or of the opponent.                              *)
PositionRaises(cpu, bd) ==
    \E r \in 0..(bd.size - 1), c \in 0..(bd.size - 1) :
        /\ bd.board[r][c] \in {cpu.player, cpu.opponent}
        /\ (r >= Len(position_values) \/ c >= Len(position_values[1]))

PositionTerm(cpu, bd, r, c) ==
    IF bd.board[r][c] = cpu.player THEN position_values[r + 1][c + 1]
    ELSE IF bd.board[r][c] = cpu.opponent THEN 0 - position_values[r + 1][c + 1]
    ELSE 0

RECURSIVE PositionRow(_, _, _, _)
PositionRow(cpu, bd, r, c) ==
    IF c >= bd.size THEN 0
    ELSE PositionTerm(cpu, bd, r, c) + PositionRow(cpu, bd, r, c + 1)

RECURSIVE PositionSum(_, _, _)
PositionSum(cpu, bd, r) ==
    IF r >= bd.size THEN 0
    ELSE PositionRow(cpu, bd, r, 0) + PositionSum(cpu, bd, r + 1)

TerminalScore(cpu, bd) ==
    LET black_score == get_score(bd)[1]
        white_score == get_score(bd)[2]
    IN IF cpu.player = BLACK
       THEN (IF black_score > white_score THEN 1000
             ELSE IF black_score < white_score THEN -1000 ELSE 0)
       ELSE (IF white_score > black_score THEN 1000
             ELSE IF white_score < black_score THEN -1000 ELSE 0)

PieceTerm(cpu, bd) ==
    (get_score(bd)[1] - get_score(bd)[2]) * (IF cpu.player = BLACK THEN 1 ELSE -1) * 10

MobilityTerm(cpu, bd) ==
    (Len(get_valid_moves(bd, cpu.player)) - Len(get_valid_moves(bd, cpu.opponent))) * 5

evaluate_board(cpu, bd) ==
    IF is_game_over(bd) THEN Val(TerminalScore(cpu, bd))
    ELSE IF PositionRaises(cpu, bd) THEN Raised
    ELSE Val(PieceTerm(cpu, bd) + PositionSum(cpu, bd, 0) + MobilityTerm(cpu, bd))

TestBoard(bd, move, player) == make_move(copy(bd), move[1], move[2], player).bd

(* Variant in which the hypothetical move is written to the board itself *)
AfterChildWritten(bd, test_board) == test_board

(* The board a search was given, after test_board (its copy, moved on and   *)
(* searched) is done with: what was written to test_board is written to    *)
(* the board only if the two share their array.                            *)
AfterChild(bd, test_board) == IF CopyShares(bd) THEN test_board ELSE bd

(* Loop of _get_greedy_move from the i-th valid move on; `bd` of the result *)
(* is the board passed in as the loop leaves it.                           *)
RECURSIVE GreedyLoop(_, _, _, _, _, _)
GreedyLoop(cpu, bd, valid_moves, i, best_move, best_score) ==
    IF i > Len(valid_moves) THEN [err |-> FALSE, move |-> best_move, bd |-> bd]
    ELSE LET move == valid_moves[i]
             test_board == TestBoard(bd, move, cpu.player)
             score == evaluate_board(cpu, test_board)
             after == AfterChild(bd, test_board)
         IN IF score.err THEN [err |-> TRUE, move |-> <<>>, bd |-> after]
            ELSE IF score.v > best_score
            THEN GreedyLoop(cpu, after, valid_moves, i + 1, move, score.v)
            ELSE GreedyLoop(cpu, after, valid_moves, i + 1, best_move, best_score)

get_greedy_move(cpu, bd, valid_moves) ==
    GreedyLoop(cpu, bd, valid_moves, 1, valid_moves[1], -1)

Max(a, b) == IF a >= b THEN a ELSE b
Min(a, b) == IF a <= b THEN a ELSE b

(* Results of _minimax: the value or the IndexError, the board passed in as *)
(* the call leaves it, and the number of nested _minimax calls below it.    *)
Returned(v, bd, plies) == [err |-> FALSE, v |-> v, bd |-> bd, plies |-> plies]
Failed(bd, plies) == [err |-> TRUE, v |-> 0, bd |-> bd, plies |-> plies]

(* Variant of the pass in _minimax that keeps the depth budget *)
minimax_pass_free(depth) == depth

(* The depth a pass recurses at: depth - 1 *)
minimax_pass_depth(depth) == depth - 1

RECURSIVE minimax(_, _, _, _, _, _)
RECURSIVE MinimaxLoop(_, _, _, _, _, _, _, _, _, _)

(* Loop of _minimax over valid_moves from index i with the running best,   *)
(* alpha and beta.                                                         *)
MinimaxLoop(cpu, bd, depth, alpha, beta, is_maximizing, valid_moves, i, best, plies) ==
    IF i > Len(valid_moves) THEN Returned(best, bd, plies)
    ELSE LET current_player == IF is_maximizing THEN cpu.player ELSE cpu.opponent
             score == minimax(cpu, TestBoard(bd, valid_moves[i], current_player),
                              depth - 1, alpha, beta, ~is_maximizing)
             after == AfterChild(bd, score.bd)
             deep == Max(plies, score.plies + 1)
         IN IF score.err THEN Failed(after, deep)
            ELSE IF is_maximizing
            THEN LET max_score == Max(best, score.v)
                     a == Max(alpha, score.v)
                 IN IF beta <= a THEN Returned(max_score, after, deep)
                    ELSE MinimaxLoop(cpu, after, depth, a, beta, is_maximizing,
                                     valid_moves, i + 1, max_score, deep)
            ELSE LET min_score == Min(best, score.v)
                     b == Min(beta, score.v)
                 IN IF b <= alpha THEN Returned(min_score, after, deep)
                    ELSE MinimaxLoop(cpu, after, depth, alpha, b, is_maximizing,
                                     valid_moves, i + 1, min_score, deep)

minimax(cpu, bd, depth, alpha, beta, is_maximizing) ==
    IF depth = 0 \/ is_game_over(bd)
    THEN LET score == evaluate_board(cpu, bd)
         IN [err |-> score.err, v |-> score.v, bd |-> bd, plies |-> 0]
    ELSE LET current_player == IF is_maximizing THEN cpu.player ELSE cpu.opponent
             valid_moves == get_valid_moves(bd, current_player)
         IN IF Len(valid_moves) = 0
            THEN LET score == minimax(cpu, bd, minimax_pass_depth(depth), alpha, beta,
                                      ~is_maximizing)
                 IN [score EXCEPT !.plies = score.plies + 1]
            ELSE MinimaxLoop(cpu, bd, depth, alpha, beta, is_maximizing, valid_moves, 1,
                             IF is_maximizing THEN 0 - Inf ELSE Inf, 0)

(* Loop of _get_minimax_move from the i-th valid move on *)
RECURSIVE MinimaxMoveLoop(_, _, _, _, _, _)
MinimaxMoveLoop(cpu, bd, valid_moves, i, best_move, best_score) ==
    IF i > Len(valid_moves) THEN [err |-> FALSE, move |-> best_move, bd |-> bd]
    ELSE LET move == valid_moves[i]
             score == minimax(cpu, TestBoard(bd, move, cpu.player),
                              cpu.difficulty - 1, 0 - Inf, Inf, FALSE)
             after == AfterChild(bd, score.bd)
         IN IF score.err THEN [err |-> TRUE, move |-> <<>>, bd |-> after]
            ELSE IF score.v > best_score
            THEN MinimaxMoveLoop(cpu, after, valid_moves, i + 1, move, score.v)
            ELSE MinimaxMoveLoop(cpu, after, valid_moves, i + 1, best_move, best_score)

get_minimax_move(cpu, bd, valid_moves) ==
    MinimaxMoveLoop(cpu, bd, valid_moves, 1, valid_moves[1], 0 - Inf)

(* The outcomes of get_move: kind "none" (None), "move" or "error"; at     *)
(* difficulty 1 random.choice may return any of the valid moves. `bd` is   *)
(* the board passed in as get_move leaves it.                              *)
None == [kind |-> "none", move |-> <<>>]
Outcome(res) == IF res.err THEN [kind |-> "error", move |-> <<>>, bd |-> res.bd]
                ELSE [kind |-> "move", move |-> res.move, bd |-> res.bd]

get_move(cpu, bd) ==
    LET valid_moves == get_valid_moves(bd, cpu.player)
    IN IF Len(valid_moves) = 0 THEN {[kind |-> "none", move |-> <<>>, bd |-> bd]}
       ELSE IF cpu.difficulty = 1
       THEN {[kind |-> "move", move |-> valid_moves[i], bd |-> bd] : i \in 1..Len(valid_moves)}
       ELSE IF cpu.difficulty = 2
       THEN {Outcome(get_greedy_move(cpu, bd, valid_moves))}
       ELSE {Outcome(get_minimax_move(cpu, bd, valid_moves))}

(* ---------------------------------------------------------------------- *)
(* API layer: list_to_board                                               *)
(* ---------------------------------------------------------------------- *)
list_to_board(board_list) == [OthelloBoard(8) EXCEPT !.board = board_list]

(* Board snapshots sent by a client: the 8 x 8 grids that hold one cell    *)
(* value on each class of squares of the positional table (corners, the    *)
(* squares next to a corner on the edge, the squares diagonal to a corner, *)
(* the two kinds of edge squares, the interior).                           *)
SquareClasses == {100, -20, -50, 10, 5, -1}

SquareClass(r, c) ==
    IF position_values[r + 1][c + 1] = -2 THEN -1 ELSE position_values[r + 1][c + 1]

Snapshot(f) == [r \in 0..7 |-> [c \in 0..7 |-> f[SquareClass(r, c)]]]

Snapshots == {Snapshot(f) : f \in [SquareClasses -> {BLACK, WHITE, EMPTY}]}

(* ---------------------------------------------------------------------- *)
(* State                                                                  *)
(*   board : the board object operated on                                 *)
(*   prev  : the board object as it was before the last call              *)
(*   last  : the last call, its arguments and what it returned            *)
(*   calls : number of make_move calls made on the board so far           *)
(*   copy_board : the board object copy() returned, if one was made       *)
(*   game  : the OthelloGame object and the position of play() in it      *)
(*   current_game_board : the module-level board of the API               *)
(*   response : the answer to the last API request                        *)
(* ---------------------------------------------------------------------- *)
VARIABLES board, prev, last, calls, copy_board, game, current_game_board, response

vars == <<board, prev, last, calls, copy_board, game, current_game_board, response>>

NoCopy == [made |-> FALSE, shared |-> FALSE, bd |-> OthelloBoard(4), prev |-> OthelloBoard(4)]

NoGame == [pc |-> "none"]

NoResponse == [op |-> "none", status |-> 0, played |-> FALSE, board |-> <<>>]

(* The objects the board-level calls do not touch *)
others == <<game, current_game_board, response>>

(* A write to the source board, seen through a copy that shares its array *)
CopyAfterSourceWrite(bd) ==
    IF copy_board.made
    THEN [copy_board EXCEPT !.prev = copy_board.bd,
                            !.bd = IF copy_board.shared THEN bd ELSE copy_board.bd]
    ELSE copy_board

NoRes == [kind |-> "none", move |-> <<>>, v |-> 0]

Call(op, row, col, player, difficulty, ret, res) ==
    [op |-> op, row |-> row, col |-> col, player |-> player,
     difficulty |-> difficulty, ret |-> ret, res |-> res]

NoCall == Call("init", 0, 0, EMPTY, 0, FALSE, NoRes)

(* Bounds of the model: make_move calls per run of each specification *)
MaxCalls == 2
MaxMoves == 3
MaxPlies == 3
MaxPieces == 6
MaxSearchPlies == 1
MaxFramePlies == 1
MaxPassPlies == 1
MaxRequests == 2
MaxGamePlacements == 4

(* Board sizes exercised (test_edge_cases) *)
Sizes == {4, 6, 8, 10}

Init ==
    /\ \E n \in Sizes : board = OthelloBoard(n)
    /\ prev = board
    /\ last = NoCall
    /\ calls = 0
    /\ copy_board = NoCopy
    /\ game = NoGame
    /\ current_game_board = OthelloBoard(8)
    /\ response = NoResponse

(* board.make_move(row, col, player) *)
MakeMove(row, col, player) ==
    LET res == make_move(board, row, col, player)
    IN /\ board' = res.bd
       /\ prev' = board
       /\ last' = Call("make_move", row, col, player, 0, res.ret, NoRes)
       /\ calls' = calls + 1
       /\ copy_board' = CopyAfterSourceWrite(res.bd)
       /\ UNCHANGED others

(* board.get_valid_moves(player) *)
GetValidMoves(player) ==
    /\ last' = Call("get_valid_moves", 0, 0, player, 0, FALSE,
                    [kind |-> "moves", move |-> get_valid_moves(board, player), v |-> 0])
    /\ prev' = board
    /\ UNCHANGED <<board, calls, copy_board, others>>

(* OthelloCPU(player, difficulty).get_move(board) *)
GetMove(player, difficulty) ==
    \E out \in get_move(OthelloCPU(player, difficulty), board) :
        /\ last' = Call("get_move", 0, 0, player, difficulty, FALSE,
                        [kind |-> out.kind, move |-> out.move, v |-> 0])
        /\ board' = out.bd
        /\ prev' = board
        /\ UNCHANGED <<calls, copy_board, others>>

(* OthelloCPU(player)._evaluate_board(board) *)
Evaluate(player) ==
    LET score == evaluate_board(OthelloCPU(player, 4), board)
    IN /\ last' = Call("evaluate", 0, 0, player, 4, FALSE,
                       [kind |-> IF score.err THEN "error" ELSE "value",
                        move |-> <<>>, v |-> score.v])
       /\ prev' = board
       /\ UNCHANGED <<board, calls, copy_board, others>>

(* A legal move of either player *)
Ply ==
    \E row \in 0..(board.size - 1), col \in 0..(board.size - 1), player \in Players :
        /\ is_valid_move(board, row, col, player)
        /\ MakeMove(row, col, player)

(* --- Spec: any caller, make_move with arbitrary arguments, legal or not --- *)
AnyMove ==
    /\ calls < MaxCalls
    /\ \E row \in -1..board.size, col \in -1..board.size, player \in Players :
          MakeMove(row, col, player)

Next == AnyMove

Spec == Init /\ [][Next]_vars

(* --- SpecPlay: legal moves only, and the legal moves are queried --- *)
LegalMove == calls < MaxMoves /\ Ply

QueryMoves == last.op # "get_valid_moves" /\ \E player \in Players : GetValidMoves(player)

NextPlay == LegalMove \/ QueryMoves

SpecPlay == Init /\ [][NextPlay]_vars

(* --- SpecCPU: the CPU (random or greedy) and the evaluator are asked on  --- *)
(* --- boards reached by legal play; as in _handle_cpu_move, a get_move   --- *)
(* --- is followed by a move, not by another get_move                     --- *)
CpuPly == calls < MaxPlies /\ Ply

CpuMove ==
    /\ last.op \notin {"get_move", "evaluate"}
    /\ \E player \in Players, difficulty \in {1, 2} : GetMove(player, difficulty)

CpuEval ==
    /\ last.op \notin {"get_move", "evaluate"}
    /\ \E player \in Players : Evaluate(player)

NextCPU == CpuPly \/ CpuMove \/ CpuEval

SpecCPU == Init /\ [][NextCPU]_vars

(* --- SpecSearch: the minimax search (difficulty 3 and 4) --- *)
SearchSizes == {4, 6, 10}

InitSearch ==
    /\ \E n \in SearchSizes : board = OthelloBoard(n)
    /\ prev = board
    /\ last = NoCall
    /\ calls = 0
    /\ copy_board = NoCopy
    /\ game = NoGame
    /\ current_game_board = OthelloBoard(8)
    /\ response = NoResponse

SearchPly == calls < MaxSearchPlies /\ Ply

SearchMove ==
    /\ last.op # "get_move"
    /\ \E player \in Players, difficulty \in {3, 4} : GetMove(player, difficulty)

NextSearch == SearchPly \/ SearchMove

SpecSearch == InitSearch /\ [][NextSearch]_vars

(* A board written cell by cell as the tests do: filled with one value,    *)
(* then (0, 0) emptied and (0, 1) set.                                     *)
FilledBoard(size, fill, other) ==
    [OthelloBoard(size) EXCEPT !.board =
        [r \in 0..(size - 1) |-> [c \in 0..(size - 1) |->
            IF r = 0 /\ c = 0 THEN EMPTY
            ELSE IF r = 0 /\ c = 1 THEN other
            ELSE fill]]]

(* --- SpecEval: the evaluator on fresh boards, on board snapshots, on    --- *)
(* --- filled boards and on the boards of fewer than MaxPieces pieces     --- *)
(* --- played on from them                                                --- *)
InitEval ==
    /\ \/ \E n \in Sizes : board = OthelloBoard(n)
       \/ \E s \in Snapshots : board = list_to_board(s)
       \/ \E n \in Sizes, v, w \in {BLACK, WHITE, EMPTY} : board = FilledBoard(n, v, w)
    /\ prev = board
    /\ last = NoCall
    /\ calls = 0
    /\ copy_board = NoCopy
    /\ game = NoGame
    /\ current_game_board = OthelloBoard(8)
    /\ response = NoResponse

EvalPly == get_score(board)[1] + get_score(board)[2] < MaxPieces /\ Ply

EvalCall == last.op # "evaluate" /\ \E player \in Players : Evaluate(player)

NextEval == EvalPly \/ EvalCall

SpecEval == InitEval /\ [][NextEval]_vars

(* --- SpecBoard: the board object itself: construction, is_game_over,    --- *)
(* --- copy, and moves on the source and on the copy                      --- *)
(* A board filled with one value, as test_get_move_no_valid_moves does *)
FullBoard(size, fill) ==
    [OthelloBoard(size) EXCEPT !.board =
        [r \in 0..(size - 1) |-> [c \in 0..(size - 1) |-> fill]]]

InitBoard ==
    /\ \/ \E n \in Sizes : board = OthelloBoard(n)
       \/ \E n \in Sizes, v, w \in {BLACK, WHITE, EMPTY} : board = FilledBoard(n, v, w)
       \/ \E n \in Sizes, v \in {BLACK, WHITE, EMPTY} : board = FullBoard(n, v)
    /\ prev = board
    /\ last = NoCall
    /\ calls = 0
    /\ copy_board = NoCopy
    /\ game = NoGame
    /\ current_game_board = OthelloBoard(8)
    /\ response = NoResponse

(* board = OthelloBoard(n) *)
BoardNew ==
    /\ last.op # "new"
    /\ ~copy_board.made
    /\ \E n \in Sizes :
          /\ board' = OthelloBoard(n)
          /\ last' = Call("new", n, 0, EMPTY, 0, FALSE, NoRes)
    /\ prev' = board
    /\ UNCHANGED <<calls, copy_board, others>>

BoardPly == calls < MaxCalls /\ Ply

(* board.is_game_over() *)
BoardOver ==
    /\ last.op # "is_game_over"
    /\ last' = Call("is_game_over", 0, 0, EMPTY, 0, is_game_over(board), NoRes)
    /\ prev' = board
    /\ UNCHANGED <<board, calls, copy_board, others>>

(* copy_board = board.copy() *)
BoardCopy ==
    /\ ~copy_board.made
    /\ copy_board' = [made |-> TRUE, shared |-> CopyShares(board),
                      bd |-> copy(board), prev |-> copy(board)]
    /\ last' = Call("copy", 0, 0, EMPTY, 0, FALSE, NoRes)
    /\ prev' = board
    /\ UNCHANGED <<board, calls, others>>

(* copy_board.make_move(row, col, player), a legal move *)
BoardCopyPly ==
    /\ copy_board.made
    /\ calls < MaxCalls
    /\ \E row \in 0..(copy_board.bd.size - 1), col \in 0..(copy_board.bd.size - 1),
          player \in Players :
          /\ is_valid_move(copy_board.bd, row, col, player)
          /\ LET res == make_move(copy_board.bd, row, col, player)
             IN /\ copy_board' = [copy_board EXCEPT !.prev = copy_board.bd, !.bd = res.bd]
                /\ board' = IF copy_board.shared THEN res.bd ELSE board
                /\ last' = Call("copy.make_move", row, col, player, 0, res.ret, NoRes)
    /\ prev' = board
    /\ calls' = calls + 1
    /\ UNCHANGED others

NextBoard == BoardNew \/ BoardPly \/ BoardOver \/ BoardCopy \/ BoardCopyPly

SpecBoard == InitBoard /\ [][NextBoard]_vars

(* --- SpecFrame: get_move at every difficulty on the boards of a game's  --- *)
(* --- first plies, Black and White moving in turn                        --- *)
FrameSizes == {4, 6}

(* The difficulties asked for on a board: all five on the 4 x 4 board *)
FrameDifficulties(size) == IF size = 4 THEN 1..5 ELSE 1..4

InitFrame ==
    /\ \E n \in FrameSizes : board = OthelloBoard(n)
    /\ prev = board
    /\ last = NoCall
    /\ calls = 0
    /\ copy_board = NoCopy
    /\ game = NoGame
    /\ current_game_board = OthelloBoard(8)
    /\ response = NoResponse

FramePly ==
    /\ calls < MaxFramePlies
    /\ \E row \in 0..(board.size - 1), col \in 0..(board.size - 1) :
          LET player == IF calls % 2 = 0 THEN BLACK ELSE WHITE
          IN /\ is_valid_move(board, row, col, player)
             /\ MakeMove(row, col, player)

FrameMove ==
    /\ last.op # "get_move"
    /\ \E player \in Players, difficulty \in FrameDifficulties(board.size) :
          GetMove(player, difficulty)

NextFrame == FramePly \/ FrameMove

SpecFrame == InitFrame /\ [][NextFrame]_vars

(* --- SpecPass: _minimax called on boards on which a player must pass:   --- *)
(* --- the filled boards and the boards one move on from them             --- *)
PassSizes == {4, 6, 8}

(* The (alpha, beta) windows _minimax is called with *)
Windows == {<<0 - Inf, Inf>>, <<0 - Inf, 0>>, <<0, Inf>>}

PassDepths == 1..3

InitPass ==
    /\ \E n \in PassSizes, v, w \in {BLACK, WHITE, EMPTY} : board = FilledBoard(n, v, w)
    /\ prev = board
    /\ last = NoCall
    /\ calls = 0
    /\ copy_board = NoCopy
    /\ game = NoGame
    /\ current_game_board = OthelloBoard(8)
    /\ response = NoResponse

(* OthelloCPU(player)._minimax(board, depth, alpha, beta, is_maximizing) *)
Minimax(player, depth, alpha, beta, is_maximizing) ==
    LET score == minimax(OthelloCPU(player, 4), board, depth, alpha, beta, is_maximizing)
    IN /\ last' = [op |-> "minimax", row |-> 0, col |-> 0, player |-> player,
                   difficulty |-> 4, ret |-> FALSE,
                   res |-> [kind |-> IF score.err THEN "error" ELSE "value",
                            move |-> <<>>, v |-> score.v],
                   depth |-> depth, alpha |-> alpha, beta |-> beta,
                   is_maximizing |-> is_maximizing, plies |-> score.plies]
       /\ board' = score.bd
       /\ prev' = board
       /\ UNCHANGED <<calls, copy_board, others>>

PassPly == calls < MaxPassPlies /\ Ply

PassMinimax ==
    /\ last.op # "minimax"
    /\ \E player \in Players, depth \in PassDepths, w \in Windows,
          is_maximizing \in BOOLEAN :
          Minimax(player, depth, w[1], w[2], is_maximizing)

NextPass == PassPly \/ PassMinimax

SpecPass == InitPass /\ [][NextPass]_vars

(* ---------------------------------------------------------------------- *)
(* API layer: the request handlers                                        *)
(*   A handler is the set of its outcomes [resp, current_game_board]; a   *)
(*   response carries the HTTP status, the detail of an error, the body,  *)
(*   whether a board operation (is_valid_move, get_move, get_valid_moves) *)
(*   ran on the request, and the size of the board object built from it.  *)
(* ---------------------------------------------------------------------- *)
board_to_list(bd) == bd.board

(* Player(value): the values of the enum; any other value is a ValueError *)
PlayerValues == {BLACK, WHITE, EMPTY}

IsRagged(board_list) == \E r \in DOMAIN board_list : DOMAIN board_list[r] # DOMAIN board_list[0]

(* np.array(board_list): a 2-D array; of rows of unequal length, a         *)
(* ValueError or a 1-D array of lists, by the version of numpy             *)
np_array(board_list) == IF IsRagged(board_list) THEN {"ValueError", "object"} ELSE {"ndarray"}

(* Whether the array has fewer rows or columns than the 8 of the board     *)
(* object around it: the scans of range(size) then read self.board[0, N],  *)
(* an IndexError                                                           *)
TooSmall(board_list) ==
    \/ Cardinality(DOMAIN board_list) < OthelloBoard(8).size
    \/ Cardinality(DOMAIN board_list[0]) < OthelloBoard(8).size

(* self.board[r, c] can be read: the array is 2-D and holds the index *)
InArray(array, board_list, r, c) ==
    /\ array = "ndarray"
    /\ r \in DOMAIN board_list
    /\ c \in DOMAIN board_list[r]

(* is_valid_move on a board object of size 8 around an array that is not   *)
(* 8 x 8: "True", "False", or "IndexError" at the first read outside it    *)
RECURSIVE WalkOnArray(_, _, _, _, _, _, _, _)
WalkOnArray(array, board_list, r, c, dr, dc, player, found_opponent) ==
    IF ~InBounds(OthelloBoard(8), r, c) THEN "False"
    ELSE IF ~InArray(array, board_list, r, c) THEN "IndexError"
    ELSE IF board_list[r][c] = EMPTY THEN "False"
    ELSE IF board_list[r][c] = player THEN (IF found_opponent THEN "True" ELSE "False")
    ELSE WalkOnArray(array, board_list, r + dr, c + dc, dr, dc, player, TRUE)

RECURSIVE DirectionsOnArray(_, _, _, _, _, _)
DirectionsOnArray(array, board_list, row, col, player, i) ==
    IF i > Len(directions) THEN "False"
    ELSE LET can_flip == WalkOnArray(array, board_list, row + directions[i][1],
                                     col + directions[i][2], directions[i][1],
                                     directions[i][2], player, FALSE)
         IN IF can_flip = "False"
            THEN DirectionsOnArray(array, board_list, row, col, player, i + 1)
            ELSE can_flip

is_valid_move_on_array(array, board_list, row, col, player) ==
    IF ~InBounds(OthelloBoard(8), row, col) THEN "False"
    ELSE IF ~InArray(array, board_list, row, col) THEN "IndexError"
    ELSE IF board_list[row][col] # EMPTY THEN "False"
    ELSE DirectionsOnArray(array, board_list, row, col, player, 1)

(* str(e) of an HTTPException(400, "Invalid move"), by the version of the  *)
(* framework                                                               *)
StrOfInvalidMove == {"400: Invalid move", ""}

ApiError(status, detail, core, size) ==
    [status |-> status, detail |-> detail, core |-> core, size |-> size,
     board |-> <<>>, move |-> <<>>, valid_moves |-> <<>>, current_player |-> EMPTY,
     scores |-> <<0, 0>>, game_over |-> FALSE, winner |-> <<>>]

ApiOk(bd, move, valid_moves, current_player, game_over, winner) ==
    [status |-> 200, detail |-> "", core |-> TRUE, size |-> bd.size,
     board |-> board_to_list(bd), move |-> move, valid_moves |-> valid_moves,
     current_player |-> current_player, scores |-> get_score(bd),
     game_over |-> game_over, winner |-> winner]

(* except ValueError -> 400; except Exception -> 500, HTTPException too *)
Caught(exception) == IF exception = "ValueError" THEN 400 ELSE 500

Winner(bd, game_over) ==
    IF ~game_over THEN <<>>
    ELSE IF get_score(bd)[1] > get_score(bd)[2] THEN <<BLACK>>
    ELSE IF get_score(bd)[2] > get_score(bd)[1] THEN <<WHITE>>
    ELSE <<>>

NextPlayer(player) == IF player = BLACK THEN WHITE ELSE BLACK

(* GET /new *)
api_new_game(cgb) ==
    LET bd == OthelloBoard(8)
    IN {[resp |-> [ApiOk(bd, <<>>, get_valid_moves(bd, BLACK), BLACK,
                         is_game_over(bd), <<>>)
                      EXCEPT !.core = FALSE],
         cgb  |-> bd]}

(* Variant of POST /move that keeps the moved board as the current game *)
after_move_stored(cgb, bd) == bd

(* The module-level board after POST /move: the handler does not assign it *)
after_move(cgb, bd) == cgb

(* POST /move *)
api_make_move(cgb, req) ==
    UNION {
        IF array = "ValueError"
        THEN {[resp |-> ApiError(Caught("ValueError"), "inhomogeneous shape", FALSE, 0),
               cgb |-> cgb]}
        ELSE IF req.player \notin PlayerValues
        THEN {[resp |-> ApiError(Caught("ValueError"), "not a valid Player", FALSE, 8),
               cgb |-> cgb]}
        ELSE IF array = "object" \/ TooSmall(req.board)
        THEN (IF is_valid_move_on_array(array, req.board, req.row, req.col, req.player)
                    = "False"
              THEN {[resp |-> ApiError(Caught("HTTPException"), detail, TRUE, 8),
                     cgb |-> cgb] : detail \in StrOfInvalidMove}
              ELSE {[resp |-> ApiError(Caught("Exception"), "fault", TRUE, 8),
                     cgb |-> cgb]})
        ELSE LET bd == list_to_board(req.board)
             IN IF ~is_valid_move(bd, req.row, req.col, req.player)
                THEN {[resp |-> ApiError(Caught("HTTPException"), detail, TRUE, 8),
                       cgb |-> cgb] : detail \in StrOfInvalidMove}
                ELSE LET moved == make_move(bd, req.row, req.col, req.player).bd
                         next_player == NextPlayer(req.player)
                         game_over == is_game_over(moved)
                     IN {[resp |-> ApiOk(moved, <<req.row, req.col>>,
                                         get_valid_moves(moved, next_player),
                                         next_player, game_over, Winner(moved, game_over)),
                          cgb |-> after_move(cgb, moved)]}
        : array \in np_array(req.board)}

(* POST /cpu-move *)
api_get_cpu_move(cgb, req) ==
    UNION {
        IF array = "ValueError"
        THEN {[resp |-> ApiError(Caught("ValueError"), "inhomogeneous shape", FALSE, 0),
               cgb |-> cgb]}
        ELSE IF req.player \notin PlayerValues
        THEN {[resp |-> ApiError(Caught("ValueError"), "not a valid Player", FALSE, 8),
               cgb |-> cgb]}
        ELSE IF array = "object" \/ TooSmall(req.board)
        THEN {[resp |-> ApiError(Caught("Exception"), "fault", TRUE, 8), cgb |-> cgb]}
        ELSE LET bd == list_to_board(req.board)
             IN {IF out.kind = "error"
                 THEN [resp |-> ApiError(Caught("Exception"), "fault", TRUE, 8), cgb |-> cgb]
                 ELSE IF out.kind = "none"
                 THEN [resp |-> ApiOk(bd, <<>>, get_valid_moves(bd, req.player),
                                      EMPTY, FALSE, <<>>),
                       cgb |-> cgb]
                 ELSE LET moved == make_move(out.bd, out.move[1], out.move[2], req.player).bd
                      IN [resp |-> ApiOk(moved, out.move,
                                         get_valid_moves(moved, NextPlayer(req.player)),
                                         EMPTY, FALSE, <<>>),
                          cgb |-> cgb]
                 : out \in get_move(OthelloCPU(req.player, req.difficulty), bd)}
        : array \in np_array(req.board)}

(* No board_state in the query *)
NoBoardState == <<>>

(* GET /valid-moves/{player} *)
api_get_valid_moves(cgb, req) ==
    IF req.player \notin PlayerValues
    THEN {[resp |-> ApiError(Caught("ValueError"), "not a valid Player", FALSE, 0),
           cgb |-> cgb]}
    ELSE IF req.board = NoBoardState
    THEN {[resp |-> [ApiError(200, "", TRUE, cgb.size)
                        EXCEPT !.valid_moves = get_valid_moves(cgb, req.player)],
           cgb |-> cgb]}
    ELSE UNION {
        IF array = "ValueError"
        THEN {[resp |-> ApiError(Caught("ValueError"), "inhomogeneous shape", FALSE, 0),
               cgb |-> cgb]}
        ELSE IF array = "object" \/ TooSmall(req.board)
        THEN {[resp |-> ApiError(Caught("Exception"), "fault", TRUE, 8), cgb |-> cgb]}
        ELSE LET bd == list_to_board(req.board)
             IN {[resp |-> [ApiError(200, "", TRUE, bd.size)
                               EXCEPT !.valid_moves = get_valid_moves(bd, req.player)],
                  cgb |-> cgb]}
        : array \in np_array(req.board)}

(* --- SpecApi: a client sends requests in any order                      --- *)
(* The grids a client sends: the snapshot of a fresh N x N board and the   *)
(* grid of the last response; an 8 x 8 grid with one cell of value 2 and a *)
(* grid whose last row is one cell short.                                  *)
BadCell == [setup_initial_position(8) EXCEPT ![2][4] = 2]

RaggedGrid ==
    [r \in 0..7 |-> IF r = 7 THEN [c \in 0..6 |-> EMPTY] ELSE setup_initial_position(8)[r]]

(* The well-formed grids a client sends *)
ClientGrids ==
    {setup_initial_position(n) : n \in Sizes}
    \cup (IF response.status = 200 /\ response.board # <<>>
          THEN {response.board} ELSE {})

(* The cells a client asks to move to: legal for Black, legal for White,   *)
(* occupied, closing no run, and out of bounds on either side              *)
ClientCells == {<<2, 3>>, <<2, 4>>, <<3, 3>>, <<2, 2>>, <<-1, 3>>, <<3, 8>>}

(* The malformed input a client sends: a player id that is not 1 or -1, a  *)
(* grid with a cell of value 2, a grid with a short row                    *)
BadInput ==
    {[board |-> setup_initial_position(8), player |-> p] : p \in {EMPTY, 2}}
    \cup {[board |-> grid, player |-> BLACK] : grid \in {BadCell, RaggedGrid}}

Request(op, grid, row, col, player, difficulty) ==
    [op |-> op, board |-> grid, row |-> row, col |-> col, player |-> player,
     difficulty |-> difficulty]

InitApi ==
    /\ board = OthelloBoard(8)
    /\ prev = board
    /\ last = NoCall
    /\ calls = 0
    /\ copy_board = NoCopy
    /\ game = NoGame
    /\ current_game_board = OthelloBoard(8)
    /\ response = NoResponse

(* The response to a request, with the request, and whether a move was    *)
(* played by a request before it                                          *)
Answer(req, resp) ==
    [op |-> req.op, request |-> req,
     played |-> response.played
                \/ (response.op \in {"move", "cpu-move"} /\ response.status = 200
                    /\ response.move # <<>>),
     status |-> resp.status, detail |-> resp.detail, core |-> resp.core,
     size |-> resp.size, board |-> resp.board, move |-> resp.move,
     valid_moves |-> resp.valid_moves, current_player |-> resp.current_player,
     scores |-> resp.scores, game_over |-> resp.game_over, winner |-> resp.winner]

Serve(req, outcomes) ==
    /\ calls < MaxRequests
    /\ \E out \in outcomes :
          /\ response' = Answer(req, out.resp)
          /\ current_game_board' = out.cgb
    /\ calls' = calls + 1
    /\ UNCHANGED <<board, prev, last, copy_board, game>>

ApiNew ==
    Serve(Request("new", NoBoardState, 0, 0, EMPTY, 0), api_new_game(current_game_board))

ApiMove ==
    \/ \E grid \in ClientGrids, cell \in ClientCells, player \in Players :
          LET req == Request("move", grid, cell[1], cell[2], player, 0)
          IN Serve(req, api_make_move(current_game_board, req))
    \/ \E bad \in BadInput, cell \in {<<1, 4>>, <<2, 3>>} :
          LET req == Request("move", bad.board, cell[1], cell[2], bad.player, 0)
          IN Serve(req, api_make_move(current_game_board, req))

ApiCpuMove ==
    \/ \E grid \in ClientGrids, player \in Players :
          LET req == Request("cpu-move", grid, 0, 0, player, 2)
          IN Serve(req, api_get_cpu_move(current_game_board, req))
    \/ \E player \in Players :
          LET req == Request("cpu-move", setup_initial_position(8), 0, 0, player, 1)
          IN Serve(req, api_get_cpu_move(current_game_board, req))
    \/ \E bad \in BadInput :
          LET req == Request("cpu-move", bad.board, 0, 0, bad.player, 2)
          IN Serve(req, api_get_cpu_move(current_game_board, req))

ApiValidMoves ==
    \/ \E grid \in ClientGrids \cup {NoBoardState}, player \in Players :
          LET req == Request("valid-moves", grid, 0, 0, player, 0)
          IN Serve(req, api_get_valid_moves(current_game_board, req))
    \/ \E bad \in BadInput :
          LET req == Request("valid-moves", bad.board, 0, 0, bad.player, 0)
          IN Serve(req, api_get_valid_moves(current_game_board, req))

NextApi == ApiNew \/ ApiMove \/ ApiCpuMove \/ ApiValidMoves

SpecApi == InitApi /\ [][NextApi]_vars

(* ---------------------------------------------------------------------- *)
(* OthelloGame.play                                                       *)
(*   game.pc: "loop" at the head of the while loop, "done" after          *)
(*   _show_final_result, "raised" when an exception left play();          *)
(*   game.step: what the last iteration did; game.pass_before: whether    *)
(*   the iteration before it passed; game.placements: pieces placed.      *)
(* ---------------------------------------------------------------------- *)
OthelloGame(board_size, cpu_difficulty, human_player) ==
    [pc |-> "loop", human_player |-> human_player,
     cpu_player |-> IF human_player = BLACK THEN WHITE ELSE BLACK,
     difficulty |-> cpu_difficulty, current_player |-> BLACK,
     step |-> "start", pass_before |-> FALSE, placements |-> 0, quit |-> FALSE]

switch_player(player) == IF player = BLACK THEN WHITE ELSE BLACK

GameSizes == {4, 12}

(* The placements a game is followed for: to its end on the 4 x 4 board *)
PlacementsBound(size) == IF size = 4 THEN size * size ELSE MaxGamePlacements

InitGame ==
    /\ \E n \in GameSizes, difficulty \in {1, 2}, human_player \in Players :
          /\ board = OthelloBoard(n)
          /\ game = OthelloGame(n, difficulty, human_player)
    /\ prev = board
    /\ last = NoCall
    /\ calls = 0
    /\ copy_board = NoCopy
    /\ current_game_board = OthelloBoard(8)
    /\ response = NoResponse

InLoop ==
    /\ game.pc = "loop"
    /\ game.placements < PlacementsBound(board.size)

Iterated(step) ==
    [game EXCEPT !.step = step, !.pass_before = (game.step = "pass"),
                 !.current_player = switch_player(game.current_player),
                 !.placements = IF step = "place" THEN @ + 1 ELSE @]

(* while not self.board.is_game_over() is false: _show_final_result *)
GameOver ==
    /\ game.pc = "loop"
    /\ is_game_over(board)
    /\ game' = [game EXCEPT !.pc = "done", !.step = "over",
                            !.pass_before = (game.step = "pass")]
    /\ prev' = board
    /\ UNCHANGED <<board, last, calls, copy_board, current_game_board, response>>

(* if not valid_moves: _switch_player(); continue *)
GamePass ==
    /\ InLoop
    /\ ~is_game_over(board)
    /\ Len(get_valid_moves(board, game.current_player)) = 0
    /\ game' = Iterated("pass")
    /\ prev' = board
    /\ UNCHANGED <<board, last, calls, copy_board, current_game_board, response>>

(* _handle_human_move: an input make_move refuses is asked for again, a    *)
(* legal one is played, 'q' leaves the loop                                *)
GameHuman ==
    /\ InLoop
    /\ ~is_game_over(board)
    /\ Len(get_valid_moves(board, game.current_player)) > 0
    /\ game.current_player = game.human_player
    /\ \/ \E row \in 0..(board.size - 1), col \in 0..(board.size - 1) :
             LET res == make_move(board, row, col, game.current_player)
             IN /\ res.ret
                /\ board' = res.bd
                /\ last' = Call("make_move", row, col, game.current_player, 0, res.ret, NoRes)
                /\ calls' = calls + 1
                /\ game' = Iterated("place")
       \/ /\ game' = [game EXCEPT !.pc = "done", !.step = "quit", !.quit = TRUE,
                                  !.pass_before = (game.step = "pass")]
          /\ UNCHANGED <<board, last, calls>>
    /\ prev' = board
    /\ UNCHANGED <<copy_board, current_game_board, response>>

(* _handle_cpu_move: get_move, then make_move of the move it returned *)
GameCpu ==
    /\ InLoop
    /\ ~is_game_over(board)
    /\ Len(get_valid_moves(board, game.current_player)) > 0
    /\ game.current_player # game.human_player
    /\ \E out \in get_move(OthelloCPU(game.cpu_player, game.difficulty), board) :
          IF out.kind = "error"
          THEN /\ game' = [game EXCEPT !.pc = "raised", !.step = "raise",
                                       !.pass_before = (game.step = "pass")]
               /\ board' = out.bd
               /\ last' = Call("get_move", 0, 0, game.cpu_player, game.difficulty, FALSE,
                               [kind |-> "error", move |-> <<>>, v |-> 0])
               /\ UNCHANGED calls
          ELSE IF out.kind = "none"
          THEN /\ game' = Iterated("none")
               /\ board' = out.bd
               /\ last' = Call("get_move", 0, 0, game.cpu_player, game.difficulty, FALSE,
                               [kind |-> "none", move |-> <<>>, v |-> 0])
               /\ UNCHANGED calls
          ELSE LET res == make_move(out.bd, out.move[1], out.move[2], game.current_player)
               IN /\ board' = res.bd
                  /\ last' = Call("make_move", out.move[1], out.move[2],
                                  game.current_player, 0, res.ret, NoRes)
                  /\ calls' = calls + 1
                  /\ game' = Iterated(IF res.ret THEN "place" ELSE "none")
    /\ prev' = board
    /\ UNCHANGED <<copy_board, current_game_board, response>>

NextGame == GameOver \/ GamePass \/ GameHuman \/ GameCpu

SpecGame == InitGame /\ [][NextGame]_vars

(* ====================================================================== *)
(* Properties                                                             *)
(* ====================================================================== *)

(* The legality rule, stated on the grid without walking it: in direction  *)
(* (dr, dc) the k cells next to (row, col) hold pieces that are not the    *)
(* player's and the cell after them holds one of the player's.             *)
At(bd, r, c) == bd.board[r][c]

ClosedRun(bd, row, col, dr, dc, player, k) ==
    /\ InBounds(bd, row + (k + 1) * dr, col + (k + 1) * dc)
    /\ At(bd, row + (k + 1) * dr, col + (k + 1) * dc) = player
    /\ \A j \in 1..k : At(bd, row + j * dr, col + j * dc) \notin {EMPTY, player}

RunLength(bd, row, col, dr, dc, player) ==
    IF \E k \in 1..bd.size : ClosedRun(bd, row, col, dr, dc, player, k)
    THEN CHOOSE k \in 1..bd.size : ClosedRun(bd, row, col, dr, dc, player, k)
    ELSE 0

EightDirections == {d \in (-1..1) \X (-1..1) : d # <<0, 0>>}

Legal(bd, row, col, player) ==
    /\ InBounds(bd, row, col)
    /\ At(bd, row, col) = EMPTY
    /\ \E d \in EightDirections : RunLength(bd, row, col, d[1], d[2], player) > 0

Pieces(bd, v) ==
    Cardinality({rc \in (0..(bd.size - 1)) \X (0..(bd.size - 1)) : At(bd, rc[1], rc[2]) = v})

Occupied(bd) == Pieces(bd, BLACK) + Pieces(bd, WHITE)

Moved == last.op = "make_move" /\ last.ret

(* C1: a make_move call whose (row, col) is out of bounds, occupied, or    *)
(* closes no run of opponent pieces in any of the 8 directions returns     *)
(* False and leaves every cell of the board as it was.                     *)
C1_IllegalMoveRejected ==
    (last.op = "make_move" /\ ~Legal(prev, last.row, last.col, last.player))
        => (last.ret = FALSE /\ board = prev)

(* C1 witness: a rejected call on an empty in-bounds cell that has an      *)
(* opponent piece next to it, made after a move has changed the board.     *)
C1_Witness ==
    /\ last.op = "make_move" /\ ~last.ret /\ calls = 2
    /\ board # OthelloBoard(board.size)
    /\ InBounds(prev, last.row, last.col)
    /\ At(prev, last.row, last.col) = EMPTY
    /\ \E d \in EightDirections :
          /\ InBounds(prev, last.row + d[1], last.col + d[2])
          /\ At(prev, last.row + d[1], last.col + d[2]) = 0 - last.player

(* C2: every successful make_move adds exactly one piece to the board,     *)
(* takes k >= 1 pieces from the opponent and gives the mover 1 + k; after  *)
(* m successful moves the board holds 4 + m pieces.                        *)
C2_PieceCounts ==
    /\ Occupied(board) = 4 + calls
    /\ last.op = "make_move" =>
          /\ last.ret
          /\ Occupied(board) = Occupied(prev) + 1
          /\ LET k == Pieces(prev, 0 - last.player) - Pieces(board, 0 - last.player)
             IN /\ k >= 1
                /\ Pieces(board, last.player) = Pieces(prev, last.player) + 1 + k
                /\ Pieces(board, last.player) >= Pieces(prev, last.player) + 2

(* C2 witness: the third move of a game flips two or more pieces *)
C2_Witness ==
    /\ Moved /\ calls = 3
    /\ Pieces(prev, 0 - last.player) - Pieces(board, 0 - last.player) >= 2

(* The board after a legal move, stated on the pre-move grid *)
Flipped(bd, row, col, player, r, c) ==
    \E d \in EightDirections :
        \E j \in 1..RunLength(bd, row, col, d[1], d[2], player) :
            r = row + j * d[1] /\ c = col + j * d[2]

Expected(bd, row, col, player) ==
    [r \in 0..(bd.size - 1) |-> [c \in 0..(bd.size - 1) |->
        IF (r = row /\ c = col) \/ Flipped(bd, row, col, player, r, c)
        THEN player ELSE bd.board[r][c]]]

Reverse(seq) == [i \in 1..Len(seq) |-> seq[Len(seq) + 1 - i]]
Rotate(seq, n) == [i \in 1..Len(seq) |-> seq[((i - 1 + n) % Len(seq)) + 1]]

DirectionOrders ==
    {Reverse(directions), Rotate(directions, 3), Reverse(Rotate(directions, 5)),
     Rotate(directions, 6)}

(* C3: after a successful make_move the board is the pre-move board with   *)
(* (row, col) and exactly the cells of the closed opponent runs set to the *)
(* player; processing the 8 directions in another order gives the same.    *)
C3_FlipsExactlyClosedRuns ==
    Moved =>
        /\ board.size = prev.size
        /\ board.board = Expected(prev, last.row, last.col, last.player)
        /\ \A dirs \in DirectionOrders :
              make_move_in_order(prev, last.row, last.col, last.player, dirs).bd = board

(* C3 witness: a move that flips runs in two directions at once *)
C3_Witness ==
    /\ Moved
    /\ \E d1, d2 \in EightDirections :
          /\ d1 # d2
          /\ RunLength(prev, last.row, last.col, d1[1], d1[2], last.player) >= 1
          /\ RunLength(prev, last.row, last.col, d2[1], d2[2], last.player) >= 1

RowMajor(m, size) == m[1] * size + m[2]

(* C4: get_valid_moves returns, in row-major order and without duplicates, *)
(* exactly the legal cells; on the fresh 8 x 8 board these are             *)
(* (2,3),(3,2),(4,5),(5,4) for Black and (2,4),(3,5),(4,2),(5,3) for White.*)
C4_ValidMoves ==
    last.op = "get_valid_moves" =>
        LET ms == last.res.move
        IN /\ \A i \in 1..(Len(ms) - 1) :
                 RowMajor(ms[i], board.size) < RowMajor(ms[i + 1], board.size)
           /\ {ms[i] : i \in 1..Len(ms)} =
                 {rc \in (-1..board.size) \X (-1..board.size) :
                     Legal(board, rc[1], rc[2], last.player)}
           /\ \A i \in 1..Len(ms) : is_valid_move(board, ms[i][1], ms[i][2], last.player)
           /\ (board = OthelloBoard(8) /\ last.player = BLACK)
                 => ms = << <<2, 3>>, <<3, 2>>, <<4, 5>>, <<5, 4>> >>
           /\ (board = OthelloBoard(8) /\ last.player = WHITE)
                 => ms = << <<2, 4>>, <<3, 5>>, <<4, 2>>, <<5, 3>> >>

(* C4 witness: the legal moves of a player with six or more of them, asked *)
(* after three moves on the 8 x 8 board.                                   *)
C4_Witness ==
    /\ last.op = "get_valid_moves" /\ calls = 3 /\ board.size = 8
    /\ Len(last.res.move) >= 6

(* ---------------------------------------------------------------------- *)
(* CPU player and evaluator                                               *)
(* ---------------------------------------------------------------------- *)
ValidSet(bd, player) ==
    {get_valid_moves(bd, player)[i] : i \in 1..Len(get_valid_moves(bd, player))}

Asked == last.op = "get_move"

(* C5: get_move returns None exactly when the player has no legal move and *)
(* otherwise returns one of the player's legal moves, at every difficulty; *)
(* at difficulty 1 every legal move can be returned.                       *)
C5_GetMoveReturnsLegalMove ==
    /\ Asked =>
          /\ (last.res.kind = "none") <=> (ValidSet(board, last.player) = {})
          /\ last.res.kind # "none" =>
                (last.res.kind = "move" /\ last.res.move \in ValidSet(board, last.player))
    /\ (Asked /\ last.difficulty = 1) =>
          {[kind |-> out.kind, move |-> out.move] :
              out \in get_move(OthelloCPU(last.player, 1), board)} =
              IF ValidSet(board, last.player) = {} THEN {None}
              ELSE {[kind |-> "move", move |-> m] : m \in ValidSet(board, last.player)}

(* The first index of a maximum of a sequence of scores *)
FirstMax(scores) ==
    CHOOSE i \in 1..Len(scores) :
        /\ \A j \in 1..Len(scores) : scores[j] <= scores[i]
        /\ \A j \in 1..(i - 1) : scores[j] < scores[i]

(* The scores the greedy search compares: the evaluator on the board after *)
(* each legal move, in get_valid_moves order.                              *)
RECURSIVE GreedyScores(_, _, _, _)
GreedyScores(bd, player, valid_moves, i) ==
    IF i > Len(valid_moves) THEN <<>>
    ELSE <<evaluate_board(OthelloCPU(player, 2), TestBoard(bd, valid_moves[i], player))>>
         \o GreedyScores(bd, player, valid_moves, i + 1)

Values(results) == [i \in 1..Len(results) |-> results[i].v]
AllReturned(results) == \A i \in 1..Len(results) : ~results[i].err

(* C6: the move get_move returns at difficulty 2 is the first legal move,  *)
(* in get_valid_moves order, whose resulting board has the maximum         *)
(* evaluator score; no other legal move scores strictly more.              *)
C6_GreedyReturnsFirstBest ==
    (Asked /\ last.difficulty = 2 /\ last.res.kind = "move") =>
        LET valid_moves == get_valid_moves(board, last.player)
            scores == Values(GreedyScores(board, last.player, valid_moves, 1))
        IN /\ \E i \in 1..Len(valid_moves) :
                 /\ valid_moves[i] = last.res.move
                 /\ \A j \in 1..Len(valid_moves) : scores[j] <= scores[i]
           /\ last.res.move = valid_moves[FirstMax(scores)]

(* Reference minimax without pruning: every legal move of every node is    *)
(* searched.                                                               *)
RECURSIVE reference_minimax(_, _, _, _)
RECURSIVE ReferenceLoop(_, _, _, _, _, _, _)

ReferenceLoop(cpu, bd, depth, is_maximizing, valid_moves, i, best) ==
    IF i > Len(valid_moves) THEN Val(best)
    ELSE LET current_player == IF is_maximizing THEN cpu.player ELSE cpu.opponent
             score == reference_minimax(cpu, TestBoard(bd, valid_moves[i], current_player),
                                        depth - 1, ~is_maximizing)
         IN IF score.err THEN Raised
            ELSE ReferenceLoop(cpu, bd, depth, is_maximizing, valid_moves, i + 1,
                               IF is_maximizing THEN Max(best, score.v)
                               ELSE Min(best, score.v))

reference_minimax(cpu, bd, depth, is_maximizing) ==
    IF depth = 0 \/ is_game_over(bd) THEN evaluate_board(cpu, bd)
    ELSE LET current_player == IF is_maximizing THEN cpu.player ELSE cpu.opponent
             valid_moves == get_valid_moves(bd, current_player)
         IN IF Len(valid_moves) = 0
            THEN reference_minimax(cpu, bd, depth - 1, ~is_maximizing)
            ELSE ReferenceLoop(cpu, bd, depth, is_maximizing, valid_moves, 1,
                               IF is_maximizing THEN 0 - Inf ELSE Inf)

(* The unpruned minimax value of each legal move, in get_valid_moves order *)
RECURSIVE ReferenceValues(_, _, _, _, _)
ReferenceValues(bd, player, difficulty, valid_moves, i) ==
    IF i > Len(valid_moves) THEN <<>>
    ELSE <<reference_minimax(OthelloCPU(player, difficulty),
                             TestBoard(bd, valid_moves[i], player), difficulty - 1, FALSE)>>
         \o ReferenceValues(bd, player, difficulty, valid_moves, i + 1)

(* C7: at difficulty d >= 3 get_move returns the move of the reference     *)
(* minimax without pruning at the same depth: the first legal move whose   *)
(* unpruned minimax value is maximal.                                      *)
C7_PrunedReturnsReferenceMove ==
    (Asked /\ last.difficulty >= 3 /\ ValidSet(board, last.player) # {}) =>
        LET valid_moves == get_valid_moves(board, last.player)
            results == ReferenceValues(board, last.player, last.difficulty, valid_moves, 1)
        IN /\ last.res.kind = "move"
           /\ AllReturned(results)
           /\ last.res.move = valid_moves[FirstMax(Values(results))]

(* The same agreement on the boards on which the evaluator returns a score *)
(* for every leaf of the unpruned tree.                                    *)
PrunedAgreesWhereReferenceDefined ==
    (Asked /\ last.difficulty >= 3 /\ ValidSet(board, last.player) # {}) =>
        LET valid_moves == get_valid_moves(board, last.player)
            results == ReferenceValues(board, last.player, last.difficulty, valid_moves, 1)
        IN AllReturned(results) =>
              /\ last.res.kind = "move"
              /\ last.res.move = valid_moves[FirstMax(Values(results))]

Evaluated == last.op = "evaluate"

(* C8: on every non-terminal board the heuristic score of either player is *)
(* strictly between -1000 and 1000, the scores of a terminal loss and win. *)
C8_HeuristicBelowTerminal ==
    (Evaluated /\ ~is_game_over(board)) =>
        (last.res.kind = "value" /\ -1000 < last.res.v /\ last.res.v < 1000)

(* C9: the evaluator returns a score on every N x N board, N in 4, 6, 8,   *)
(* 10, so get_move at difficulty 2..5 never fails on such a board.         *)
C9_EvaluatorTotal ==
    /\ Evaluated => last.res.kind = "value"
    /\ (Asked /\ last.difficulty >= 2) => last.res.kind # "error"

Stuck(bd, player) ==
    \A r, c \in 0..(bd.size - 1) :
        At(bd, r, c) = EMPTY =>
            \A d \in EightDirections, k \in 1..(bd.size - 2) :
                ~ClosedRun(bd, r, c, d[1], d[2], player, k)

(* C11: is_game_over() is true exactly when neither Black nor White has a  *)
(* legal move (get_valid_moves is empty for both); a board whose cells all *)
(* hold one colour is over, and a board on which only one of the players   *)
(* has no legal move is not.                                               *)
C11_GameOverIffBothStuck ==
    (last.op = "is_game_over") =>
        LET black_stuck == Stuck(board, BLACK)
            white_stuck == Stuck(board, WHITE)
        IN /\ last.ret <=> (Len(get_valid_moves(board, BLACK)) = 0
                              /\ Len(get_valid_moves(board, WHITE)) = 0)
           /\ last.ret <=> (black_stuck /\ white_stuck)
           /\ (\E v \in Players : Pieces(board, v) = board.size * board.size) => last.ret
           /\ (black_stuck # white_stuck) => ~last.ret

C11_Witness ==
    /\ last.op = "is_game_over"
    /\ ~last.ret
    /\ Stuck(board, BLACK) # Stuck(board, WHITE)

(* C12: OthelloBoard(N), N in {4, 6, 8, 10}, holds exactly 4 pieces: White *)
(* at (N/2-1, N/2-1) and (N/2, N/2), Black at (N/2-1, N/2) and             *)
(* (N/2, N/2-1); every other cell is empty and get_score() is (2, 2).      *)
C12_InitialPosition ==
    (last.op = "new") =>
        LET n == last.row
            h == n \div 2
        IN /\ board.size = n
           /\ DOMAIN board.board = 0..(n - 1)
           /\ \A r \in 0..(n - 1) : DOMAIN board.board[r] = 0..(n - 1)
           /\ At(board, h - 1, h - 1) = WHITE /\ At(board, h, h) = WHITE
           /\ At(board, h - 1, h) = BLACK /\ At(board, h, h - 1) = BLACK
           /\ \A r, c \in 0..(n - 1) :
                 (r \notin {h - 1, h} \/ c \notin {h - 1, h}) => At(board, r, c) = EMPTY
           /\ Occupied(board) = 4
           /\ get_score(board) = <<2, 2>>

C12_Witness == last.op = "new" /\ last.row = 10 /\ board.size = 10 /\ prev.size # 10

(* C13: copy() returns a board of the same size and cells; a make_move on  *)
(* the copy leaves the source as it was, and a make_move on the source     *)
(* leaves the copy as it was.                                              *)
C13_CopyIsIndependent ==
    /\ (last.op = "copy") =>
          /\ copy_board.bd.size = board.size
          /\ \A r, c \in 0..(board.size - 1) : At(copy_board.bd, r, c) = At(board, r, c)
          /\ board = prev
    /\ (last.op = "copy.make_move") => board = prev
    /\ (last.op = "make_move" /\ copy_board.made) => copy_board.bd = copy_board.prev

C13_Witness ==
    /\ last.op = "copy.make_move"
    /\ last.ret
    /\ calls = 2
    /\ copy_board.prev # board
    /\ copy_board.bd # copy_board.prev

(* ---------------------------------------------------------------------- *)
(* The searches: frame and passes                                         *)
(* ---------------------------------------------------------------------- *)
(* C15: get_move(board) leaves the board it is given unchanged, for every  *)
(* player and every difficulty in 1..5: the hypothetical moves of the      *)
(* greedy and minimax searches are made on copies, at every node.          *)
C15_GetMoveLeavesBoard ==
    Asked => (board = prev /\ board.size = prev.size)

C15_Witness ==
    /\ Asked
    /\ last.difficulty = 5
    /\ last.res.kind = "move"
    /\ calls = 1
    /\ Moved = FALSE
    /\ Occupied(board) = 5

(* The player who moves at a node of _minimax *)
Actor(call) ==
    IF call.is_maximizing THEN call.player
    ELSE IF call.player = BLACK THEN WHITE ELSE BLACK

Passes(bd, call) ==
    /\ call.depth >= 1
    /\ Stuck(bd, Actor(call))
    /\ ~(Stuck(bd, BLACK) /\ Stuck(bd, WHITE))

(* C16: _minimax at depth >= 1 on a board that is not over and on which    *)
(* the player to move has no legal move returns what _minimax returns on   *)
(* the same board at depth - 1 with the same alpha and beta and the        *)
(* maximizing flag flipped; a pass costs one ply, and no call from depth d *)
(* nests more than d calls deep.                                           *)
C16_PassCostsOnePly ==
    (last.op = "minimax") =>
        /\ last.plies <= last.depth
        /\ Passes(prev, last) =>
              LET below == minimax(OthelloCPU(last.player, 4), prev, last.depth - 1,
                                   last.alpha, last.beta, ~last.is_maximizing)
              IN /\ (last.res.kind = "error") = below.err
                 /\ last.res.v = below.v
                 /\ last.plies = below.plies + 1
                 /\ board = prev

C16_Witness ==
    /\ last.op = "minimax"
    /\ Passes(prev, last)
    /\ last.depth = 3
    /\ last.plies = 2
    /\ last.res.kind = "value"
    /\ last.res.v = 1000

(* ---------------------------------------------------------------------- *)
(* The API                                                                *)
(* ---------------------------------------------------------------------- *)
(* The last request carried a grid *)
HasGrid ==
    \/ response.op \in {"move", "cpu-move"}
    \/ (response.op = "valid-moves" /\ response.request.board # NoBoardState)

GridCells(board_list) ==
    {board_list[r][c] : r \in DOMAIN board_list, c \in DOMAIN board_list[0]}

(* The grid is N x N for an N in Sizes and holds only cell values *)
WellFormedGrid(board_list) ==
    /\ ~IsRagged(board_list)
    /\ Cardinality(DOMAIN board_list) \in Sizes
    /\ Cardinality(DOMAIN board_list[0]) = Cardinality(DOMAIN board_list)
    /\ GridCells(board_list) \subseteq {BLACK, WHITE, EMPTY}

Malformed(req) ==
    \/ IsRagged(req.board)
    \/ ~(GridCells(req.board) \subseteq {BLACK, WHITE, EMPTY})
    \/ req.player \notin Players

(* The board the request describes: N x N, N the number of rows sent *)
SuppliedBoard(req) == [size |-> Cardinality(DOMAIN req.board), board |-> req.board]

(* C14: a /move or /cpu-move request whose grid has rows of unequal        *)
(* length, holds a cell value outside {-1, 0, 1}, or whose player id is    *)
(* not 1 or -1 is rejected with an input-validation error (status 400 or   *)
(* 422) before is_valid_move, make_move or get_move runs on it.            *)
C14_MalformedRejected ==
    (response.op \in {"move", "cpu-move"} /\ Malformed(response.request)) =>
        (response.status \in {400, 422} /\ ~response.core)

(* C17: a POST /move whose (row, col) is not a legal move of the player on *)
(* the board sent (occupied, out of bounds, or closing no run) is answered *)
(* with status 400 and detail "Invalid move".                              *)
C17_IllegalMoveIs400 ==
    (/\ response.op = "move"
     /\ WellFormedGrid(response.request.board)
     /\ response.request.player \in Players
     /\ ~Legal(SuppliedBoard(response.request), response.request.row,
               response.request.col, response.request.player))
        => (response.status = 400 /\ response.detail = "Invalid move")

(* C18: for a well-formed N x N grid, N in {4, 6, 8, 10}, the board built  *)
(* from the request has size N: no index outside the grid is read, and the *)
(* valid moves returned are those of the N x N board.                      *)
C18_BoardSizeIsGridSize ==
    (/\ HasGrid
     /\ WellFormedGrid(response.request.board)
     /\ response.request.player \in Players)
        => /\ response.size = Cardinality(DOMAIN response.request.board)
           /\ response.status = 200 \/ response.detail # "fault"
           /\ (response.op = "valid-moves") =>
                 /\ response.status = 200
                 /\ response.valid_moves =
                        get_valid_moves(SuppliedBoard(response.request),
                                        response.request.player)

(* C20: after any sequence of requests current_game_board is the initial   *)
(* 8 x 8 position, and GET /valid-moves/{player} without a board_state     *)
(* returns the legal moves of the initial position.                        *)
C20_CurrentBoardStaysInitial ==
    /\ current_game_board.size = 8
    /\ current_game_board.board = setup_initial_position(8)
    /\ (/\ response.op = "valid-moves"
        /\ response.request.board = NoBoardState
        /\ response.request.player \in Players)
          => /\ response.status = 200
             /\ response.valid_moves =
                   IF response.request.player = BLACK
                   THEN << <<2, 3>>, <<3, 2>>, <<4, 5>>, <<5, 4>> >>
                   ELSE << <<2, 4>>, <<3, 5>>, <<4, 2>>, <<5, 3>> >>

C20_Witness ==
    /\ response.op = "valid-moves"
    /\ response.request.board = NoBoardState
    /\ response.request.player = WHITE
    /\ response.played
    /\ Len(response.valid_moves) = 4

(* On an array of at least 8 x 8 cells the walk that watches the array     *)
(* bounds answers as is_valid_move does.                                   *)
ArrayWalkAgrees ==
    (response.op = "move" /\ response.request.player \in PlayerValues
     /\ ~IsRagged(response.request.board) /\ ~TooSmall(response.request.board)) =>
        (is_valid_move_on_array("ndarray", response.request.board, response.request.row,
                                response.request.col, response.request.player) = "True")
        = is_valid_move(list_to_board(response.request.board), response.request.row,
                        response.request.col, response.request.player)

(* ---------------------------------------------------------------------- *)
(* The game loop                                                          *)
(* ---------------------------------------------------------------------- *)
(* The player whose turn the last iteration was *)
Mover == switch_player(game.current_player)

(* What C19 says of every iteration of play(): a pass only for a player    *)
(* with no legal move in a game that is not over, never after a pass; any  *)
(* other iteration places one piece of the player to move; at most         *)
(* N*N - 4 placements.                                                     *)
IterationsAsClaimed ==
    /\ (game.step = "pass") =>
          /\ Stuck(prev, Mover)
          /\ ~(Stuck(prev, BLACK) /\ Stuck(prev, WHITE))
          /\ ~game.pass_before
          /\ board = prev
    /\ (game.step \in {"place", "none"}) =>
          /\ game.step = "place"
          /\ Occupied(board) = Occupied(prev) + 1
          /\ Pieces(board, EMPTY) = Pieces(prev, EMPTY) - 1
          /\ At(prev, last.row, last.col) = EMPTY
          /\ At(board, last.row, last.col) = Mover
    /\ game.placements <= board.size * board.size - 4
    /\ Occupied(board) = 4 + game.placements

(* C19: in play(), with a human who enters legal moves, the turn is passed *)
(* only when the player to move has no legal move and the game is not      *)
(* over, never twice in a row; every other iteration places one piece of   *)
(* the player to move; the loop is left only with is_game_over() true,     *)
(* after at most N*N - 4 placements.                                       *)
C19_PlayEndsWithGameOver ==
    (game.pc # "none") =>
        /\ IterationsAsClaimed
        /\ game.pc \in {"loop", "done"}
        /\ (game.pc = "done" /\ ~game.quit) => (Stuck(board, BLACK) /\ Stuck(board, WHITE))

(* The same, for the games in which the evaluator does not raise *)
PlayAsClaimedUnlessRaised ==
    (game.pc \notin {"none", "raised"}) =>
        /\ IterationsAsClaimed
        /\ (game.pc = "done" /\ ~game.quit) => (Stuck(board, BLACK) /\ Stuck(board, WHITE))

====
